---- MODULE Spec2Model ----
(***************************************************************************)
(* rich-cli: the renderable composition pipeline of main() in              *)
(* src/src/rich_cli/__main__.py and the key handling of PagerApp in        *)
(* src/src/rich_cli/pager.py.                                              *)
(*                                                                         *)
(* Python strings that the code inspects character by character (the       *)
(* resource identifier) are sequences of one-character strings.  An        *)
(* Optional[int] is the empty sequence (None) or a one-element sequence.   *)
(***************************************************************************)
EXTENDS Integers, Sequences, FiniteSets, TLC

VARIABLES
    \* ---- the invocation: the parameters click hands to main() ----
    version, flags, resource, head, tail, padding, panel, panel_style,
    style, width, pager, align, argv_width,
    \* ---- the command: the options click has registered on main ----
    params,
    \* ---- the world the invocation runs in ----
    env_readable, env_num_lines, env_parse_ok, env_console_width, env_csv,
    environ,
    \* ---- main()'s locals and effects ----
    pc, expand, print_padding, resource_format, renderable, line_range,
    lr_called, table, exit_code, stderr, printed,
    \* ---- the pager session (PagerApp + its ScrollView body) ----
    content, viewport_height, total_height, target_y, y,
    _g_key_pressed_before, event, history

inputs == <<version, flags, resource, head, tail, padding, panel,
            panel_style, style, width, pager, align, argv_width>>
env == <<env_readable, env_num_lines, env_parse_ok, env_console_width,
         env_csv, environ, params>>
locals == <<pc, expand, print_padding, resource_format, renderable,
            line_range, lr_called, table, exit_code, stderr, printed>>
session == <<content, viewport_height, total_height, target_y, y,
             _g_key_pressed_before, event, history>>
vars == <<inputs, env, locals, session>>

----------------------------------------------------------------------------
(* Bounds of the model.                                                    *)

MaxHead == 3          \* head and tail range over 1..MaxHead (and 10)
MaxLines == 3         \* a resource has 0..MaxLines lines (or 100)
MaxPad == 5           \* a padding spec has at most MaxPad comma-separated tokens
MaxViewport == 2      \* viewport heights 1..MaxViewport (and 20)
MaxTotal == 4         \* content heights 0..MaxTotal (and 25)
MaxJ == 15            \* the run of j presses followed from the start of a session
MaxRows == 3          \* a CSV resource has at most MaxRows rows, the header included
MaxG == 4             \* the run of g presses followed after a G

----------------------------------------------------------------------------
(* Program constants.                                                      *)

AUTO == 0
SYNTAX == 1
PRINT == 2
MARKDOWN == 3
RST == 4
JSON == 5
RULE == 6
INSPECT == 7
CSV == 8

BOXES == {"none", "ascii", "ascii2", "square", "rounded", "heavy", "double"}

None == <<>>
Some(n) == <<n>>
IsNone(o) == o = <<>>
\* Python truthiness of an Optional[int]
Truthy(o) == o # <<>> /\ o[1] # 0

Min(a, b) == IF a <= b THEN a ELSE b
Max(a, b) == IF a >= b THEN a ELSE b

----------------------------------------------------------------------------
(* Strings, as the code takes them apart.                                  *)

\* str.lower() on the characters the model uses
LowerChar(c) ==
    CASE c = "M" -> "m"
      [] c = "D" -> "d"
      [] c = "R" -> "r"
      [] OTHER -> c

lower(s) == [i \in 1..Len(s) |-> LowerChar(s[i])]

\* str.find / str.rfind, 1-based; 0 when the character does not occur
find(s, c) ==
    IF \E i \in 1..Len(s) : s[i] = c
    THEN CHOOSE i \in 1..Len(s) : s[i] = c /\ \A k \in 1..(i - 1) : s[k] # c
    ELSE 0

rfind(s, c) ==
    IF \E i \in 1..Len(s) : s[i] = c
    THEN CHOOSE i \in 1..Len(s) : s[i] = c /\ \A k \in (i + 1)..Len(s) : s[k] # c
    ELSE 0

Contains(s, c) == \E i \in 1..Len(s) : s[i] = c

startswith(s, p) == Len(s) >= Len(p) /\ SubSeq(s, 1, Len(p)) = p

\* the part of s before the first occurrence of c (all of s when c is absent)
Before(s, c) == IF find(s, c) = 0 THEN s ELSE SubSeq(s, 1, find(s, c) - 1)

HTTP == <<"h", "t", "t", "p", ":", "/", "/">>
HTTPS == <<"h", "t", "t", "p", "s", ":", "/", "/">>

IsUrl(s) == startswith(s, HTTP) \/ startswith(s, HTTPS)

\* os.path.splitext(p)[-1] (posixpath): the text from the last dot of the
\* last path component, unless that component has only leading dots before it
splitext(p) ==
    LET sepIndex == rfind(p, "/")
        dotIndex == rfind(p, ".")
    IN  IF dotIndex > sepIndex
           /\ \E k \in (sepIndex + 1)..(dotIndex - 1) : p[k] # "."
        THEN SubSeq(p, dotIndex, Len(p))
        ELSE <<>>

\* urllib.parse.urlparse(url) for a url that starts with http:// or https://.
\* ok is FALSE when urlparse raises ValueError (unbalanced bracket in netloc).
urlparse(url) ==
    LET afterScheme == SubSeq(url, find(url, ":") + 1, Len(url))
        rest == SubSeq(afterScheme, 3, Len(afterScheme))
        cut == {i \in 1..Len(rest) : rest[i] \in {"/", "?", "#"}}
        delim == IF cut = {} THEN Len(rest) + 1
                 ELSE CHOOSE i \in cut : \A k \in cut : i <= k
        netloc == SubSeq(rest, 1, delim - 1)
        tail1 == SubSeq(rest, delim, Len(rest))
        noFragment == Before(tail1, "#")
        noQuery == Before(noFragment, "?")
        \* _splitparams: the first ';' at or after the last '/'
        lastSep == rfind(noQuery, "/")
        semis == {i \in 1..Len(noQuery) : noQuery[i] = ";" /\ i > lastSep}
        path == IF semis = {} THEN noQuery
                ELSE SubSeq(noQuery, 1, (CHOOSE i \in semis : \A k \in semis : i <= k) - 1)
    IN  [ok |-> ~(Contains(netloc, "[") /\ ~Contains(netloc, "]"))
                /\ ~(Contains(netloc, "]") /\ ~Contains(netloc, "[")),
         path |-> path]

\* Extension, were the URL branch missing: the query string is searched too
Extension_NoUrlBranch(res) == lower(splitext(res))

\* main, lines 485-496: the extension the format is looked up by
Extension(res) ==
    IF IsUrl(res)
    THEN IF urlparse(res).ok THEN lower(splitext(urlparse(res).path)) ELSE <<>>
    ELSE lower(splitext(res))

----------------------------------------------------------------------------
(* Format resolution, main lines 464-508.                                  *)

\* ExplicitFormat, were the branches tested in the order
\* print, rule, json, markdown, rst, csv, syntax, inspect
ExplicitFormat_Reordered(f) ==
    IF f.print THEN PRINT
    ELSE IF f.rule THEN RULE
    ELSE IF f.json THEN JSON
    ELSE IF f.markdown THEN MARKDOWN
    ELSE IF f.rst THEN RST
    ELSE IF f.csv THEN CSV
    ELSE IF f.syntax THEN SYNTAX
    ELSE IF f.inspect THEN INSPECT
    ELSE AUTO

\* the elif chain over the mode flags
ExplicitFormat(f) ==
    IF f.print THEN PRINT
    ELSE IF f.syntax THEN SYNTAX
    ELSE IF f.json THEN JSON
    ELSE IF f.markdown THEN MARKDOWN
    ELSE IF f.rule THEN RULE
    ELSE IF f.inspect THEN INSPECT
    ELSE IF f.csv THEN CSV
    ELSE IF f.rst THEN RST
    ELSE AUTO

\* the extension lookup, consulted only while the format is still AUTO
ExtensionFormat(res) ==
    LET ext == Extension(res)
    IN  IF ext = <<".", "m", "d">> THEN MARKDOWN
        ELSE IF ext = <<".", "j", "s", "o", "n">> THEN JSON
        ELSE IF ext \in {<<".", "c", "s", "v">>, <<".", "t", "s", "v">>} THEN CSV
        ELSE IF ext = <<".", "r", "s", "t">> THEN RST
        ELSE AUTO

ResolveFormat(f, res) ==
    LET explicit == ExplicitFormat(f)
        byExt == IF explicit = AUTO /\ Contains(res, ".")
                 THEN ExtensionFormat(res) ELSE explicit
    IN  IF byExt = AUTO THEN SYNTAX ELSE byExt

----------------------------------------------------------------------------
(* Line ranges.                                                            *)

\* _line_range, were the tail window computed as the last `tail` lines
_line_range_LastLines(h, t, num_lines) ==
    IF Truthy(h) /\ Truthy(t)
    THEN [err |-> TRUE, range |-> None]
    ELSE IF Truthy(h)
    THEN [err |-> FALSE, range |-> <<1, h[1]>>]
    ELSE IF Truthy(t)
    THEN [err |-> FALSE, range |-> <<num_lines - t[1] + 1, num_lines>>]
    ELSE [err |-> FALSE, range |-> None]

\* _line_range, were the head-and-tail test missing: head wins
_line_range_NoConflict(h, t, num_lines) ==
    IF Truthy(h)
    THEN [err |-> FALSE, range |-> <<1, h[1]>>]
    ELSE IF Truthy(t)
    THEN [err |-> FALSE, range |-> <<num_lines - t[1] + 2, num_lines + 1>>]
    ELSE [err |-> FALSE, range |-> None]

\* _line_range(head, tail, num_lines): err when on_error is called, else the
\* returned Optional[Tuple[int, int]]
_line_range(h, t, num_lines) ==
    IF Truthy(h) /\ Truthy(t)
    THEN [err |-> TRUE, range |-> None]
    ELSE IF Truthy(h)
    THEN [err |-> FALSE, range |-> <<1, h[1]>>]
    ELSE IF Truthy(t)
    THEN [err |-> FALSE, range |-> <<num_lines - t[1] + 2, num_lines + 1>>]
    ELSE [err |-> FALSE, range |-> None]

----------------------------------------------------------------------------
(* Padding specs.  A spec is None or a string; the string is kept as the   *)
(* list of tokens that str.split(",") yields, so the empty string is the   *)
(* one-token list holding the empty token.                                 *)

PadTokens == {"1", " 2", "x", ""}

\* int(token): the tokens Python's int() accepts, and their values
IntOf(tok) ==
    CASE tok = "1" -> Some(1)
      [] tok = " 2" -> Some(2)
      [] OTHER -> None

\* `if padding:` -- neither None nor the empty string
PaddingGiven(p) == p # None /\ p[1] # <<"">>

\* ParsePaddingSpec, were three values let through as well
ParsePaddingSpec_UpToFour(p) ==
    IF ~PaddingGiven(p) THEN [ok |-> TRUE, value |-> <<>>]
    ELSE LET toks == p[1]
         IN  IF \E i \in 1..Len(toks) : IntOf(toks[i]) = None
             THEN [ok |-> FALSE, value |-> <<>>]
             ELSE IF Len(toks) \notin {1, 2, 3, 4}
             THEN [ok |-> FALSE, value |-> <<>>]
             ELSE [ok |-> TRUE, value |-> [i \in 1..Len(toks) |-> IntOf(toks[i])[1]]]

\* main lines 452-460: ok and the parsed list, or not ok (on_error)
ParsePaddingSpec(p) ==
    IF ~PaddingGiven(p) THEN [ok |-> TRUE, value |-> <<>>]
    ELSE LET toks == p[1]
         IN  IF \E i \in 1..Len(toks) : IntOf(toks[i]) = None
             THEN [ok |-> FALSE, value |-> <<>>]
             ELSE IF Len(toks) \notin {1, 2, 4}
             THEN [ok |-> FALSE, value |-> <<>>]
             ELSE [ok |-> TRUE, value |-> [i \in 1..Len(toks) |-> IntOf(toks[i])[1]]]

----------------------------------------------------------------------------
(* Styles and renderables.                                                 *)

StyleSpecs == {"", "bold red", "not a style"}

\* rich's Style.parse succeeds on the spec (the empty spec is the null style)
StyleParses(spec) == spec \in {"", "bold red", "bright_green"}

\* A renderable: the content object and the decorators wrapped around it,
\* innermost first.
Base(kind) == [base |-> kind, wraps |-> <<>>]

Layer(kind, pad, box, sty, w, ex) ==
    [kind |-> kind, pad |-> pad, box |-> box, style |-> sty, width |-> w,
     expand |-> ex]

Wrap(r, layer) == [r EXCEPT !.wraps = Append(@, layer)]

\* Padding(renderable, tuple(print_padding), expand=expand)
WrapPadding(r, pad, ex) == Wrap(r, Layer("Padding", pad, "", "", 0, ex))
\* Panel(renderable, box, expand=expand, border_style=render_border_style)
WrapPanel(r, box, border, ex) == Wrap(r, Layer("Panel", <<>>, box, border, 0, ex))
\* WrapStyled, were the style put on the content before the other decorators
WrapStyled_Innermost(r, sty) ==
    [r EXCEPT !.wraps = <<Layer("Styled", <<>>, "", sty, 0, FALSE)>> \o @]

\* Styled(renderable, text_style)
WrapStyled(r, sty) == Wrap(r, Layer("Styled", <<>>, "", sty, 0, FALSE))
\* ForceWidth(renderable, width=width)
WrapForceWidth(r, w) == Wrap(r, Layer("ForceWidth", <<>>, "", "", w, FALSE))
\* Align(renderable, justify)
WrapAlign(r, justify) == Wrap(r, Layer("Align", <<>>, "", justify, 0, FALSE))

----------------------------------------------------------------------------
(* render_csv: the table built from the rows csv.reader yields.  A row is  *)
(* a sequence of cells, a cell a sequence of characters.                   *)

Digits == {"0", "1", "2", "3", "4", "5", "6", "7", "8", "9"}

\* the index after the run of digits of s that starts at index i
RECURSIVE SkipDigits(_, _)
SkipDigits(s, i) ==
    IF i <= Len(s) /\ s[i] \in Digits THEN SkipDigits(s, i + 1) ELSE i

\* is_number, were the pattern matched with match instead of fullmatch: every
\* part of the pattern is optional, so every value matches
is_number_PrefixMatch(value) == TRUE

\* re.compile(r"\-?[0-9]*?\.?[0-9]*?").fullmatch, line 720
is_number(value) ==
    LET afterSign == IF 1 <= Len(value) /\ value[1] = "-" THEN 2 ELSE 1
        afterInt == SkipDigits(value, afterSign)
        afterDot == IF afterInt <= Len(value) /\ value[afterInt] = "."
                    THEN afterInt + 1 ELSE afterInt
    IN  SkipDigits(value, afterDot) = Len(value) + 1

\* lines 763-776: the for/else over table_rows for the column at `index`
\* (1-based here); a row without a cell at the index raises in itemgetter
NumericColumn(table_rows, index) ==
    \A i \in 1..Len(table_rows) :
        /\ index <= Len(table_rows[i])
        /\ table_rows[i][index] = <<>> \/ is_number(table_rows[i][index])

\* the longest of the rows
RECURSIVE Widest(_)
Widest(rows) ==
    IF rows = <<>> THEN 0 ELSE Max(Len(Head(rows)), Widest(Tail(rows)))

NoTable == [columns |-> <<>>, rows |-> <<>>]

\* render_csv, lines 748-778, from the rows of the reader (not empty when
\* has_header): the header is taken off, empty rows are dropped, head or
\* tail clips the rest, add_row adds a column for every cell beyond the
\* header's, and the numeric columns are marked
render_csv(all_rows, has_header, h, t) ==
    LET header == IF has_header THEN Head(all_rows) ELSE <<>>
        rows == IF has_header THEN Tail(all_rows) ELSE all_rows
        kept == SelectSeq(rows, LAMBDA row : row # <<>>)
        n == Len(kept)
        table_rows == IF h # None THEN SubSeq(kept, 1, Min(h[1], n))
                      ELSE IF t # None THEN SubSeq(kept, Max(1, n - t[1] + 1), n)
                      ELSE kept
        count == Max(Len(header), Widest(table_rows))
    IN  [columns |->
            [c \in 1..count |->
                [header |-> IF c <= Len(header) THEN header[c] ELSE <<>>,
                 justify |-> IF NumericColumn(table_rows, c)
                             THEN "right" ELSE "left",
                 style |-> IF NumericColumn(table_rows, c)
                           THEN "bold green" ELSE ""]],
         rows |-> table_rows]

\* cells and rows of the CSV resources the model reads
Blank == <<>>
One == <<"1">>
Two == <<"2">>
Three == <<"3">>
Ex == <<"x">>
Neg == <<"-", "1", ".", "5">>
Dots == <<"1", ".", "2", ".", "3">>
ColA == <<"a">>
ColB == <<"b">>

RowSet == {<<>>, <<One>>, <<One, Ex>>, <<Blank, Neg>>, <<Ex, Dots>>}

RECURSIVE RowLists(_)
RowLists(n) ==
    IF n = 0 THEN {<<>>}
    ELSE {Append(l, row) : l \in RowLists(n - 1), row \in RowSet}

\* what the sniffer says of the header, and the rows the reader yields
CsvInputs ==
    [has_header : BOOLEAN, rows : UNION {RowLists(n) : n \in 0..MaxRows}]

\* a,b / 1,2 / 3,x
DefaultCsv ==
    [has_header |-> TRUE,
     rows |-> <<<<ColA, ColB>>, <<One, Two>>, <<Three, Ex>>>>]

----------------------------------------------------------------------------
(* The command: the options click.option declares on main, and the values  *)
(* click hands to main for them.                                           *)

\* the options declared on main, lines 241-387, in the order of declaration
Options == <<
    [name |-> "print", opts |-> {"--print", "-p"}, envvar |-> ""],
    [name |-> "rule", opts |-> {"--rule", "-u"}, envvar |-> ""],
    [name |-> "json", opts |-> {"--json", "-j"}, envvar |-> ""],
    [name |-> "markdown", opts |-> {"--markdown", "-m"}, envvar |-> ""],
    [name |-> "rst", opts |-> {"--rst"}, envvar |-> ""],
    [name |-> "csv", opts |-> {"--csv"}, envvar |-> ""],
    [name |-> "syntax", opts |-> {"--syntax"}, envvar |-> ""],
    [name |-> "inspect", opts |-> {"--inspect"}, envvar |-> ""],
    [name |-> "head", opts |-> {"--head", "-h"}, envvar |-> ""],
    [name |-> "tail", opts |-> {"--tail", "-t"}, envvar |-> ""],
    [name |-> "emoji", opts |-> {"--emoji", "-j"}, envvar |-> ""],
    [name |-> "left", opts |-> {"--left", "-l"}, envvar |-> ""],
    [name |-> "right", opts |-> {"--right", "-r"}, envvar |-> ""],
    [name |-> "center", opts |-> {"--center", "-c"}, envvar |-> ""],
    [name |-> "text_left", opts |-> {"--text-left", "-L"}, envvar |-> ""],
    [name |-> "text_right", opts |-> {"--text-right", "-R"}, envvar |-> ""],
    [name |-> "text_center", opts |-> {"--text-center", "-C"}, envvar |-> ""],
    [name |-> "text_full", opts |-> {"--text-full", "-F"}, envvar |-> ""],
    [name |-> "soft", opts |-> {"--soft"}, envvar |-> ""],
    [name |-> "expand", opts |-> {"--expand", "-e"}, envvar |-> ""],
    [name |-> "width", opts |-> {"--width", "-w"}, envvar |-> ""],
    [name |-> "max_width", opts |-> {"--max-width", "-W"}, envvar |-> ""],
    [name |-> "style", opts |-> {"--style", "-s"}, envvar |-> ""],
    [name |-> "rule_style", opts |-> {"--rule-style"}, envvar |-> ""],
    [name |-> "rule_char", opts |-> {"--rule-char"}, envvar |-> ""],
    [name |-> "padding", opts |-> {"--padding", "-d"}, envvar |-> ""],
    [name |-> "panel", opts |-> {"--panel", "-a"}, envvar |-> ""],
    [name |-> "panel_style", opts |-> {"--panel-style", "-S"}, envvar |-> ""],
    [name |-> "theme", opts |-> {"--theme"}, envvar |-> "RICH_THEME"],
    [name |-> "line_numbers", opts |-> {"--line-numbers", "-n"}, envvar |-> ""],
    [name |-> "guides", opts |-> {"--guides", "-g"}, envvar |-> ""],
    [name |-> "lexer", opts |-> {"--lexer", "-x"}, envvar |-> ""],
    [name |-> "hyperlinks", opts |-> {"--hyperlinks", "-y"}, envvar |-> ""],
    [name |-> "no_wrap", opts |-> {"--no-wrap"}, envvar |-> ""],
    [name |-> "title", opts |-> {"--title"}, envvar |-> ""],
    [name |-> "caption", opts |-> {"--caption"}, envvar |-> ""],
    [name |-> "force_terminal", opts |-> {"--force-terminal"}, envvar |-> ""],
    [name |-> "export_html", opts |-> {"--export-html", "-o"}, envvar |-> ""],
    [name |-> "pager", opts |-> {"--pager"}, envvar |-> ""],
    [name |-> "version", opts |-> {"--version", "-v"}, envvar |-> ""]
>>

OptionNamed(name) ==
    Options[CHOOSE i \in 1..Len(Options) : Options[i].name = name]

\* the environment variables the tests of tests/test_env_vars.py set
EnvNames == {"RICH_THEME", "RICH_HYPERLINKS", "RICH_LINE_NUMBERS",
             "RICH_GUIDES", "RICH_FORCE_TERMINAL", "RICH_SOFT_WRAP",
             "RICH_PAGER", "RICH_WIDTH"}

Unset == [RICH_THEME |-> "", RICH_HYPERLINKS |-> "", RICH_LINE_NUMBERS |-> "",
          RICH_GUIDES |-> "", RICH_FORCE_TERMINAL |-> "", RICH_SOFT_WRAP |-> "",
          RICH_PAGER |-> "", RICH_WIDTH |-> ""]

\* the text click finds in the environment for an option: that of the
\* variable the option declares with envvar=, when it declares one
EnvValue(name, environment) ==
    IF OptionNamed(name).envvar \in EnvNames
    THEN environment[OptionNamed(name).envvar]
    ELSE ""

\* click's INT conversion of the texts the model puts in the environment
IntOfEnv(text) ==
    CASE text = "40" -> Some(40)
      [] text = "80" -> Some(80)
      [] OTHER -> None

\* click's BOOL conversion of the texts the model puts in the environment
BoolOfEnv(text) == text \in {"1", "true", "yes", "on"}

\* the value is taken from the command line when the flag is there, else
\* from the environment when the option declares a variable and it is set,
\* else it is the default; a text that does not convert is a usage error
UsageError(i) ==
    /\ i.width = -1
    /\ EnvValue("width", i.environ) # ""
    /\ IntOfEnv(EnvValue("width", i.environ)) = None

WidthValue(i) ==
    IF i.width # -1 THEN i.width
    ELSE IF IntOfEnv(EnvValue("width", i.environ)) # None
    THEN IntOfEnv(EnvValue("width", i.environ))[1]
    ELSE -1

PagerValue(i) == i.pager \/ BoolOfEnv(EnvValue("pager", i.environ))

----------------------------------------------------------------------------
(* The invocations the model runs.                                         *)

NoFlags == [print |-> FALSE, syntax |-> FALSE, json |-> FALSE,
            markdown |-> FALSE, rule |-> FALSE, inspect |-> FALSE,
            csv |-> FALSE, rst |-> FALSE]

AllFlags == [print : BOOLEAN, syntax : BOOLEAN, json : BOOLEAN,
             markdown : BOOLEAN, rule : BOOLEAN, inspect : BOOLEAN,
             csv : BOOLEAN, rst : BOOLEAN]

FlagNames == {"print", "syntax", "json", "markdown", "rule", "inspect",
              "csv", "rst"}

FlagsSet(f) == {n \in FlagNames : f[n]}

OnlyFlag(n) == [m \in FlagNames |-> m = n]

AtMostOneFlag == {f \in AllFlags : Cardinality(FlagsSet(f)) <= 1}

Prefixes == {<<>>,
             <<"d", ".", "m", "d", "/">>,
             HTTP \o <<"h", "/">>,
             HTTPS \o <<"h", "/">>,
             HTTP \o <<"h">>,
             HTTP \o <<"[", "h", "/">>}
Stems == {<<>>, <<"a">>}
Exts == {<<>>,
         <<".", "m", "d">>,
         <<".", "M", "d">>,
         <<".", "j", "s", "o", "n">>,
         <<".", "c", "s", "v">>,
         <<".", "t", "s", "v">>,
         <<".", "r", "s", "t">>,
         <<".", "p", "y">>,
         <<".">>}
Suffixes == {<<>>,
             <<"?", "q", ".", "j", "s", "o", "n">>,
             <<"#", "f", ".", "c", "s", "v">>,
             <<";", "p", ".", "r", "s", "t">>}

StdinMarker == <<"-">>
APy == <<"a", ".", "p", "y">>
AMd == <<"a", ".", "m", "d">>

Resources ==
    {p \o s \o e \o u : p \in Prefixes, s \in Stems, e \in Exts, u \in Suffixes}
        \cup {StdinMarker}

OptCounts == {None} \cup {Some(n) : n \in 1..MaxHead} \cup {Some(10)}
LineCounts == (0..MaxLines) \cup {100}

RECURSIVE TokenLists(_)
TokenLists(n) ==
    IF n = 0 THEN {<<>>}
    ELSE {Append(l, t) : l \in TokenLists(n - 1), t \in PadTokens}

PaddingSpecs ==
    {None} \cup {Some(l) : l \in UNION {TokenLists(n) : n \in 1..MaxPad}}

Widths == {-1, 0, 40}
Aligns == {"default", "left", "right", "center"}

Default ==
    [version |-> FALSE, flags |-> NoFlags, resource |-> APy, head |-> None,
     tail |-> None, padding |-> None, panel |-> "none", panel_style |-> "",
     style |-> "", width |-> -1, pager |-> FALSE, align |-> "default",
     env_readable |-> TRUE, env_num_lines |-> 2, env_parse_ok |-> TRUE,
     env_console_width |-> 80, env_csv |-> DefaultCsv, environ |-> Unset]

\* click calls main with the parameters of the invocation i
Enter(i) ==
    /\ version = i.version
    /\ flags = i.flags
    /\ resource = i.resource
    /\ head = i.head
    /\ tail = i.tail
    /\ padding = i.padding
    /\ panel = i.panel
    /\ panel_style = i.panel_style
    /\ style = i.style
    /\ argv_width = (IF i.width = -1 THEN None ELSE Some(i.width))
    /\ width = WidthValue(i)
    /\ pager = PagerValue(i)
    /\ align = i.align
    /\ env_readable = i.env_readable
    /\ env_num_lines = i.env_num_lines
    /\ env_parse_ok = i.env_parse_ok
    /\ env_console_width = i.env_console_width
    /\ env_csv = i.env_csv
    /\ environ = i.environ
    /\ params = Options
    /\ IF UsageError(i)
       THEN pc = "exited" /\ exit_code = Some(2) /\ stderr = <<"Usage">>
       ELSE pc = "start" /\ exit_code = None /\ stderr = <<>>

\* every combination of mode flags, on a few resources
ManyFlags ==
    \E f \in AllFlags, r \in {<<>>, AMd, APy, HTTP \o <<"h", "/">> \o AMd},
       rd \in BOOLEAN, ok \in BOOLEAN :
        Enter([Default EXCEPT !.flags = f, !.resource = r, !.env_readable = rd,
                              !.env_parse_ok = ok])

\* every resource identifier, with no mode flag or exactly one
ManyResources ==
    \E f \in AtMostOneFlag, r \in Resources :
        Enter([Default EXCEPT !.flags = f, !.resource = r])

\* head, tail and the number of lines
ManyRanges ==
    \E f \in {NoFlags, OnlyFlag("syntax"), OnlyFlag("csv")},
       r \in {<<>>, APy, StdinMarker},
       h \in OptCounts, t \in OptCounts, n \in LineCounts, rd \in BOOLEAN :
        Enter([Default EXCEPT !.flags = f, !.resource = r, !.head = h,
                              !.tail = t, !.env_num_lines = n,
                              !.env_readable = rd])

\* every padding spec
ManyPaddings ==
    \E p \in PaddingSpecs, v \in BOOLEAN :
        Enter([Default EXCEPT !.padding = p, !.version = v])

\* the layout options
ManyLayouts ==
    \E p \in {None, Some(<<"1">>), Some(<<"1", " 2", "1", " 2">>)},
       b \in BOXES, ps \in StyleSpecs, st \in StyleSpecs, w \in Widths,
       pg \in BOOLEAN, al \in {"default", "center"} :
        Enter([Default EXCEPT !.flags = OnlyFlag("print"), !.padding = p,
                              !.panel = b, !.panel_style = ps, !.style = st,
                              !.width = w, !.pager = pg, !.align = al])

ACsv == <<"a", ".", "c", "s", "v">>

TableCounts == {None, Some(1), Some(2)}

\* CSV resources, with head and tail; when the sniffer fails the resource may
\* be empty, and the .csv extension stands in for what it would have found
ManyTables ==
    \E h \in TableCounts, t \in TableCounts,
       c \in {d \in CsvInputs \X BOOLEAN :
                    IF d[2] THEN d[1].rows # <<>> ELSE d[1].has_header} :
        Enter([Default EXCEPT !.flags = OnlyFlag("csv"), !.resource = ACsv,
                              !.head = h, !.tail = t, !.env_csv = c[1],
                              !.env_parse_ok = c[2]])

\* the environment variables, with and without --width and --pager
ManyEnvirons ==
    \E w \in {-1, 40}, pg \in BOOLEAN, ew \in {"", "80", "not_a_number"},
       ep \in {"", "1"}, et \in {"", "monokai"} :
        Enter([Default EXCEPT !.width = w, !.pager = pg,
                              !.environ = [Unset EXCEPT !.RICH_WIDTH = ew,
                                                        !.RICH_PAGER = ep,
                                                        !.RICH_THEME = et]])

\* the invocations the model runs
Invocations ==
    \/ ManyFlags
    \/ ManyResources
    \/ ManyRanges
    \/ ManyPaddings
    \/ ManyLayouts
    \/ ManyTables
    \/ ManyEnvirons

NoContent == [lines_width |-> 0, width |-> 0, renderable |-> Base("")]

\* the session before PagerApp is run
SessionIdle ==
    /\ content = NoContent
    /\ viewport_height = 1
    /\ total_height = 0
    /\ target_y = 0
    /\ y = 0
    /\ _g_key_pressed_before = FALSE
    /\ event = ""
    /\ history = <<>>

\* main() is entered with the parameters of one invocation
Init ==
    /\ Invocations
    /\ expand = FALSE
    /\ print_padding = <<>>
    /\ resource_format = AUTO
    /\ renderable = Base("")
    /\ line_range = None
    /\ lr_called = FALSE
    /\ table = NoTable
    /\ printed = <<>>
    /\ SessionIdle

----------------------------------------------------------------------------
(* main(): one action per stage of the function body.                      *)

\* on_error, were the exit status lost (sys.exit() without the code)
on_error_ExitZero(message) ==
    /\ stderr' = Append(stderr, message)
    /\ exit_code' = Some(0)
    /\ pc' = "exited"

\* on_error(message): the message goes to the error console, then sys.exit(-1)
on_error(message) ==
    /\ stderr' = Append(stderr, message)
    /\ exit_code' = Some(-1)
    /\ pc' = "exited"

\* an exception nothing catches: the traceback, then exit status 1
Uncaught ==
    /\ stderr' = Append(stderr, "Traceback")
    /\ exit_code' = Some(1)
    /\ pc' = "exited"

Goto(stage) ==
    /\ pc' = stage
    /\ UNCHANGED <<stderr, exit_code>>

\* read_resource(path, lexer): "ok", "exit" (on_error was called inside it)
\* or "raise" (requests.get raised; read_resource does not catch it)
read_resource(path) ==
    IF path = <<>> THEN [res |-> "exit", msg |-> "missing path or URL"]
    ELSE IF IsUrl(path)
    THEN IF env_readable THEN [res |-> "ok", msg |-> ""]
         ELSE [res |-> "raise", msg |-> ""]
    ELSE IF env_readable THEN [res |-> "ok", msg |-> ""]
         ELSE [res |-> "exit", msg |-> "unable to read"]

\* lines 432-450
Start ==
    /\ pc = "start"
    /\ IF version
       THEN /\ printed' = Append(printed, [what |-> "version", r |-> Base("")])
            /\ pc' = "done"
            /\ exit_code' = Some(0)
            /\ UNCHANGED <<expand, stderr>>
       ELSE /\ expand' = (width > 0)
            /\ Goto("padding")
            /\ UNCHANGED printed
    /\ UNCHANGED <<inputs, env, session, print_padding, resource_format,
                   renderable, line_range, lr_called, table>>

\* lines 452-460
ParsePadding ==
    /\ pc = "padding"
    /\ LET parsed == ParsePaddingSpec(padding)
       IN  IF parsed.ok
           THEN /\ print_padding' = parsed.value
                /\ Goto("format")
           ELSE /\ on_error("padding should be 1, 2 or 4 integers separated by commas")
                /\ UNCHANGED print_padding
    /\ UNCHANGED <<inputs, env, session, expand, resource_format, renderable,
                   line_range, lr_called, table, printed>>

\* lines 464-508
Format ==
    /\ pc = "format"
    /\ resource_format' = ResolveFormat(flags, resource)
    /\ Goto("content")
    /\ UNCHANGED <<inputs, env, session, expand, print_padding, renderable,
                   line_range, lr_called, table, printed>>

ContentFrame ==
    UNCHANGED <<inputs, env, session, expand, print_padding, resource_format>>

\* lines 510-549: console markup, and a rule over it when --rule is set
\* (--rule-style is left at its default, which parses)
BuildText ==
    /\ pc = "content"
    /\ resource_format \in {PRINT, RULE}
    /\ IF ~env_parse_ok
       THEN on_error("unable to parse console markup") /\ UNCHANGED renderable
       ELSE IF flags.rule
       THEN renderable' = Base("Rule") /\ Goto("decorate_padding")
       ELSE renderable' = Base("Text") /\ Goto("decorate_padding")
    /\ ContentFrame
    /\ UNCHANGED <<line_range, lr_called, table, printed>>

\* lines 551-558
BuildJson ==
    /\ pc = "content"
    /\ resource_format = JSON
    /\ LET rd == read_resource(resource)
       IN  IF rd.res = "exit" THEN on_error(rd.msg) /\ UNCHANGED renderable
           ELSE IF rd.res = "raise" THEN Uncaught /\ UNCHANGED renderable
           ELSE IF ~env_parse_ok
           THEN on_error("unable to read json") /\ UNCHANGED renderable
           ELSE renderable' = Base("JSON") /\ Goto("decorate_padding")
    /\ ContentFrame
    /\ UNCHANGED <<line_range, lr_called, table, printed>>

\* lines 560-564
BuildMarkdown ==
    /\ pc = "content"
    /\ resource_format = MARKDOWN
    /\ LET rd == read_resource(resource)
       IN  IF rd.res = "exit" THEN on_error(rd.msg) /\ UNCHANGED renderable
           ELSE IF rd.res = "raise" THEN Uncaught /\ UNCHANGED renderable
           ELSE renderable' = Base("Markdown") /\ Goto("decorate_padding")
    /\ ContentFrame
    /\ UNCHANGED <<line_range, lr_called, table, printed>>

\* lines 566-575
BuildRst ==
    /\ pc = "content"
    /\ resource_format = RST
    /\ LET rd == read_resource(resource)
       IN  IF rd.res = "exit" THEN on_error(rd.msg) /\ UNCHANGED renderable
           ELSE IF rd.res = "raise" THEN Uncaught /\ UNCHANGED renderable
           ELSE renderable' = Base("RestructuredText") /\ Goto("decorate_padding")
    /\ ContentFrame
    /\ UNCHANGED <<line_range, lr_called, table, printed>>

\* lines 577-588
BuildInspect ==
    /\ pc = "content"
    /\ resource_format = INSPECT
    /\ IF ~env_parse_ok
       THEN /\ printed' = Append(printed, [what |-> "exception", r |-> Base("")])
            /\ on_error("unable to eval")
            /\ UNCHANGED renderable
       ELSE /\ renderable' = Base("Inspect")
            /\ Goto("decorate_padding")
            /\ UNCHANGED printed
    /\ ContentFrame
    /\ UNCHANGED <<line_range, lr_called, table>>

endswith(s, suffix) ==
    Len(s) >= Len(suffix) /\ SubSeq(s, Len(s) - Len(suffix) + 1, Len(s)) = suffix

\* lines 590-592 and render_csv, lines 722-778; when the sniffer fails and
\* the extension stands in, has_header is True, and next(rows) raises
\* StopIteration on a resource without rows
BuildCsv ==
    /\ pc = "content"
    /\ resource_format = CSV
    /\ LET rd == read_resource(resource)
           fallback == \/ endswith(lower(resource), <<".", "c", "s", "v">>)
                       \/ endswith(lower(resource), <<".", "t", "s", "v">>)
           has_header == IF env_parse_ok THEN env_csv.has_header ELSE TRUE
       IN  IF rd.res = "exit"
           THEN on_error(rd.msg) /\ UNCHANGED <<renderable, table>>
           ELSE IF rd.res = "raise"
           THEN Uncaught /\ UNCHANGED <<renderable, table>>
           ELSE IF ~env_parse_ok /\ ~fallback
           THEN /\ on_error("Could not determine delimiter")
                /\ UNCHANGED <<renderable, table>>
           ELSE IF has_header /\ env_csv.rows = <<>>
           THEN Uncaught /\ UNCHANGED <<renderable, table>>
           ELSE /\ renderable' = Base("Table")
                /\ table' = render_csv(env_csv.rows, has_header, head, tail)
                /\ Goto("decorate_padding")
    /\ ContentFrame
    /\ UNCHANGED <<line_range, lr_called, printed>>

\* lines 594-618
BuildSyntax ==
    /\ pc = "content"
    /\ resource_format = SYNTAX
    /\ IF resource = <<>>
       THEN \* print_usage(): sys.exit(0)
            /\ printed' = Append(printed, [what |-> "usage", r |-> Base("")])
            /\ exit_code' = Some(0)
            /\ pc' = "exited"
            /\ UNCHANGED <<stderr, renderable, line_range, lr_called>>
       ELSE LET rd == IF resource = StdinMarker
                      THEN [res |-> IF env_readable THEN "ok" ELSE "raise", msg |-> ""]
                      ELSE read_resource(resource)
                lr == _line_range(head, tail, env_num_lines)
            IN  /\ UNCHANGED printed
                /\ IF rd.res = "exit"
                   THEN on_error(rd.msg) /\ UNCHANGED <<renderable, line_range, lr_called>>
                   ELSE IF rd.res = "raise"
                   THEN on_error("unable to read file")
                        /\ UNCHANGED <<renderable, line_range, lr_called>>
                   ELSE /\ lr_called' = TRUE
                        /\ IF lr.err
                           THEN /\ on_error("cannot specify both head and tail")
                                /\ UNCHANGED <<renderable, line_range>>
                           ELSE /\ line_range' = lr.range
                                /\ renderable' = Base("Syntax")
                                /\ Goto("decorate_padding")
    /\ ContentFrame
    /\ UNCHANGED table

----------------------------------------------------------------------------
(* The decorators, lines 620-656, and the output, lines 658-689.           *)

DecorFrame ==
    UNCHANGED <<inputs, env, session, expand, print_padding, resource_format,
                line_range, lr_called, table, printed>>

\* DecoratePadding, were the test `padding is not None` instead
DecoratePadding_WhenNotNone ==
    /\ pc = "decorate_padding"
    /\ renderable' = IF padding # None
                     THEN WrapPadding(renderable, print_padding, expand)
                     ELSE renderable
    /\ Goto("decorate_panel")
    /\ DecorFrame

\* lines 620-623
DecoratePadding ==
    /\ pc = "decorate_padding"
    /\ renderable' = IF print_padding # <<>>
                     THEN WrapPadding(renderable, print_padding, expand)
                     ELSE renderable
    /\ Goto("decorate_panel")
    /\ DecorFrame

\* lines 625-642
DecoratePanel ==
    /\ pc = "decorate_panel"
    /\ IF panel # "none"
       THEN IF StyleParses(panel_style)
            THEN /\ renderable' = WrapPanel(renderable, panel, panel_style, expand)
                 /\ Goto("decorate_style")
            ELSE /\ on_error("unable to parse panel style")
                 /\ UNCHANGED renderable
       ELSE /\ Goto("decorate_style")
            /\ UNCHANGED renderable
    /\ DecorFrame

\* lines 644-653
DecorateStyle ==
    /\ pc = "decorate_style"
    /\ IF style # ""
       THEN IF StyleParses(style)
            THEN /\ renderable' = WrapStyled(renderable, style)
                 /\ Goto("decorate_width")
            ELSE /\ on_error("unable to parse style")
                 /\ UNCHANGED renderable
       ELSE /\ Goto("decorate_width")
            /\ UNCHANGED renderable
    /\ DecorFrame

\* DecorateWidth, were the width clamp put on for the pager too (line 655
\* without `and not pager`)
DecorateWidth_WithPager ==
    /\ pc = "decorate_width"
    /\ renderable' = IF width > 0
                     THEN WrapForceWidth(renderable, width)
                     ELSE renderable
    /\ Goto("output")
    /\ DecorFrame

\* lines 655-656
DecorateWidth ==
    /\ pc = "decorate_width"
    /\ renderable' = IF width > 0 /\ ~pager
                     THEN WrapForceWidth(renderable, width)
                     ELSE renderable
    /\ Goto("output")
    /\ DecorFrame

\* lines 658-689: hand the pre-rendered lines to the pager, or print
Output ==
    /\ pc = "output"
    /\ IF pager
       THEN LET aligned == IF align # "default"
                           THEN WrapAlign(renderable, align) ELSE renderable
                w == IF width < 0 THEN env_console_width ELSE width
            IN  /\ renderable' = aligned
                /\ width' = w
                /\ content' = [lines_width |-> w - 1, width |-> w,
                               renderable |-> aligned]
                /\ Goto("pager")
                /\ UNCHANGED printed
       ELSE /\ printed' = Append(printed, [what |-> "renderable", r |-> renderable])
            /\ pc' = "done"
            /\ exit_code' = Some(0)
            /\ UNCHANGED <<renderable, width, content, stderr>>
    /\ UNCHANGED <<version, flags, resource, head, tail, padding, panel,
                   panel_style, style, pager, align, argv_width, env, expand,
                   print_padding, resource_format, line_range, lr_called, table,
                   viewport_height, total_height, target_y, y,
                   _g_key_pressed_before, event, history>>

----------------------------------------------------------------------------
(* The pager session: PagerApp.run(title=resource, content=...).           *)
(*                                                                         *)
(* event is the key event waiting to be handled ("" when none is).         *)
(* history follows the keys handled since the session began for as long    *)
(* as they spell the start of one of the Scenarios; after that it is       *)
(* Untracked.                                                              *)

Keys == {"g", "G", "j", "k", " ", "u", "ctrl+u", "d", "ctrl+d", "b",
         "ctrl+b", "f", "ctrl+f", "x"}

Untracked == <<"...">>

Scenarios == {<<"g", "j", "g", "g">>, [i \in 1..MaxJ |-> "j"],
              <<"G", "b", "d">>, <<"j", "g">>, <<"b", "f">>,
              <<"f", "f", "b">>, <<"d", "d", "u">>,
              [i \in 1..(MaxG + 1) |-> IF i = 1 THEN "G" ELSE "g"]}

IsPrefix(p, q) == Len(p) <= Len(q) /\ SubSeq(q, 1, Len(p)) = p

Follow(h, key) ==
    IF h # Untracked /\ \E sc \in Scenarios : IsPrefix(Append(h, key), sc)
    THEN Append(h, key)
    ELSE Untracked

Heights ==
    {<<v, t>> : v \in 1..MaxViewport, t \in 0..MaxTotal} \cup {<<20, 25>>}

\* ScrollView.max_scroll_y
max_scroll_y == Max(0, total_height - viewport_height)

\* Clamp, were only the top guarded
Clamp_TopOnly(v) == Max(0, v)

\* ScrollView keeps an offset assigned to target_y (or y) inside the content
Clamp(v) == Max(0, Min(v, max_scroll_y))

\* ScrollView.scroll_up(), .scroll_down() and .page_down(): the new target
scroll_up == target_y + 1
scroll_down == target_y - 1
page_down == target_y + viewport_height

\* on_key's local function: the new value of body.target_y (the easing only
\* shapes the transition)
body_scroll_to_y(to_y, easing) == Clamp(to_y)

\* KeyTarget, were j and k bound the way the names of the methods suggest
KeyTarget_LineKeysSwapped(key) ==
    IF key = "G" THEN body_scroll_to_y(max_scroll_y, "out_expo")
    ELSE IF key = "j" THEN Clamp(scroll_down)
    ELSE IF key = "k" THEN Clamp(scroll_up)
    ELSE IF key = " " THEN Clamp(page_down)
    ELSE IF key \in {"u", "ctrl+u"}
    THEN body_scroll_to_y(target_y - viewport_height \div 2, "out_cubic")
    ELSE IF key \in {"d", "ctrl+d"}
    THEN body_scroll_to_y(target_y + viewport_height \div 2, "out_cubic")
    ELSE IF key \in {"b", "ctrl+b"}
    THEN body_scroll_to_y(target_y - viewport_height, "out_quart")
    ELSE IF key \in {"f", "ctrl+f"}
    THEN body_scroll_to_y(target_y + viewport_height, "out_quart")
    ELSE target_y

\* KeyTarget, were the ctrl variants of the half-page keys left out of the
\* lists of lines 88 and 92
KeyTarget_NoCtrlHalf(key) ==
    IF key = "G" THEN body_scroll_to_y(max_scroll_y, "out_expo")
    ELSE IF key = "j" THEN Clamp(scroll_up)
    ELSE IF key = "k" THEN Clamp(scroll_down)
    ELSE IF key = " " THEN Clamp(page_down)
    ELSE IF key = "u"
    THEN body_scroll_to_y(target_y - viewport_height \div 2, "out_cubic")
    ELSE IF key = "d"
    THEN body_scroll_to_y(target_y + viewport_height \div 2, "out_cubic")
    ELSE IF key \in {"b", "ctrl+b"}
    THEN body_scroll_to_y(target_y - viewport_height, "out_quart")
    ELSE IF key \in {"f", "ctrl+f"}
    THEN body_scroll_to_y(target_y + viewport_height, "out_quart")
    ELSE target_y

\* KeyTarget, were the jumps of lines 88-103 computed from the offset the
\* transition has reached (body.y) and not from its target
KeyTarget_FromOffset(key) ==
    IF key = "G" THEN body_scroll_to_y(max_scroll_y, "out_expo")
    ELSE IF key = "j" THEN Clamp(scroll_up)
    ELSE IF key = "k" THEN Clamp(scroll_down)
    ELSE IF key = " " THEN Clamp(page_down)
    ELSE IF key \in {"u", "ctrl+u"}
    THEN body_scroll_to_y(y - viewport_height \div 2, "out_cubic")
    ELSE IF key \in {"d", "ctrl+d"}
    THEN body_scroll_to_y(y + viewport_height \div 2, "out_cubic")
    ELSE IF key \in {"b", "ctrl+b"}
    THEN body_scroll_to_y(y - viewport_height, "out_quart")
    ELSE IF key \in {"f", "ctrl+f"}
    THEN body_scroll_to_y(y + viewport_height, "out_quart")
    ELSE target_y

\* the target on_key leaves for a key other than g, lines 80-103
KeyTarget(key) ==
    IF key = "G" THEN body_scroll_to_y(max_scroll_y, "out_expo")
    ELSE IF key = "j" THEN Clamp(scroll_up)
    ELSE IF key = "k" THEN Clamp(scroll_down)
    ELSE IF key = " " THEN Clamp(page_down)
    ELSE IF key \in {"u", "ctrl+u"}
    THEN body_scroll_to_y(target_y - viewport_height \div 2, "out_cubic")
    ELSE IF key \in {"d", "ctrl+d"}
    THEN body_scroll_to_y(target_y + viewport_height \div 2, "out_cubic")
    ELSE IF key \in {"b", "ctrl+b"}
    THEN body_scroll_to_y(target_y - viewport_height, "out_quart")
    ELSE IF key \in {"f", "ctrl+f"}
    THEN body_scroll_to_y(target_y + viewport_height, "out_quart")
    ELSE target_y

\* on_key, were the flag left set when gg scrolls to the top (line 74 missing)
on_key_StaysArmed(key) ==
    IF key = "g"
    THEN IF ~_g_key_pressed_before
         THEN /\ _g_key_pressed_before' = TRUE
              /\ UNCHANGED target_y
         ELSE /\ target_y' = body_scroll_to_y(0, "out_expo")
              /\ UNCHANGED _g_key_pressed_before
    ELSE /\ _g_key_pressed_before' = FALSE
         /\ target_y' = KeyTarget(key)

\* on_key, were the flag not cleared by the other keys (line 78 missing)
on_key_FlagKept(key) ==
    IF key = "g"
    THEN IF ~_g_key_pressed_before
         THEN /\ _g_key_pressed_before' = TRUE
              /\ UNCHANGED target_y
         ELSE /\ target_y' = body_scroll_to_y(0, "out_expo")
              /\ _g_key_pressed_before' = FALSE
    ELSE /\ UNCHANGED _g_key_pressed_before
         /\ target_y' = KeyTarget(key)

\* PagerApp.on_key(event), lines 63-103
on_key(key) ==
    IF key = "g"
    THEN IF ~_g_key_pressed_before
         THEN /\ _g_key_pressed_before' = TRUE
              /\ UNCHANGED target_y
         ELSE /\ target_y' = body_scroll_to_y(0, "out_expo")
              /\ _g_key_pressed_before' = FALSE
    ELSE /\ _g_key_pressed_before' = FALSE
         /\ target_y' = KeyTarget(key)

MainFrame == UNCHANGED <<inputs, env, expand, print_padding, resource_format,
                         renderable, line_range, lr_called, table, stderr, printed>>

\* PagerApp.on_mount, lines 105-110: the body is docked and given the content
on_mount ==
    /\ pc = "pager"
    /\ \E hs \in Heights :
        /\ viewport_height' = hs[1]
        /\ total_height' = hs[2]
    /\ pc' = "viewing"
    /\ UNCHANGED <<content, target_y, y, _g_key_pressed_before, event,
                   history, exit_code>>
    /\ MainFrame

\* a key other than the quit key arrives
KeyPress ==
    /\ pc = "viewing"
    /\ event = ""
    /\ \E key \in Keys : event' = key
    /\ UNCHANGED <<content, viewport_height, total_height, target_y, y,
                   _g_key_pressed_before, history, pc, exit_code>>
    /\ MainFrame

\* HandleKey, were a key that on_key does not know to end the session
HandleKey_UnknownKeyQuits ==
    /\ pc = "viewing"
    /\ event # ""
    /\ on_key(event)
    /\ history' = Follow(history, event)
    /\ event' = ""
    /\ IF event = "x"
       THEN pc' = "done" /\ exit_code' = Some(0)
       ELSE UNCHANGED <<pc, exit_code>>
    /\ UNCHANGED <<content, viewport_height, total_height, y>>
    /\ MainFrame

\* the key event is dispatched to on_key
HandleKey ==
    /\ pc = "viewing"
    /\ event # ""
    /\ on_key(event)
    /\ history' = Follow(history, event)
    /\ event' = ""
    /\ UNCHANGED <<content, viewport_height, total_height, y, pc, exit_code>>
    /\ MainFrame

\* body.animate("y", target_y, ...): the offset moves a step toward the target
AnimateStep ==
    /\ pc = "viewing"
    /\ y # target_y
    /\ y' = IF y < target_y THEN y + 1 ELSE y - 1
    /\ UNCHANGED <<content, viewport_height, total_height, target_y,
                   _g_key_pressed_before, event, history, pc, exit_code>>
    /\ MainFrame

\* on_load, lines 60-61: q is bound to quit; run() returns and main ends
Quit ==
    /\ pc = "viewing"
    /\ event = ""
    /\ pc' = "done"
    /\ exit_code' = Some(0)
    /\ UNCHANGED session
    /\ MainFrame

----------------------------------------------------------------------------
(* Specifications.                                                         *)

Next ==
    \/ Start
    \/ ParsePadding
    \/ Format
    \/ BuildText
    \/ BuildJson
    \/ BuildMarkdown
    \/ BuildRst
    \/ BuildInspect
    \/ BuildCsv
    \/ BuildSyntax
    \/ DecoratePadding
    \/ DecoratePanel
    \/ DecorateStyle
    \/ DecorateWidth
    \/ Output

\* main(), from its entry to the end of the process or the start of the pager
Spec == Init /\ [][Next]_vars

\* main() has handed the default resource to the pager (rich a.py --pager)
PagerInit ==
    /\ version = FALSE
    /\ flags = NoFlags
    /\ resource = APy
    /\ head = None
    /\ tail = None
    /\ padding = None
    /\ panel = "none"
    /\ panel_style = ""
    /\ style = ""
    /\ width = 80
    /\ pager = TRUE
    /\ align = "default"
    /\ argv_width = None
    /\ env_readable = TRUE
    /\ env_num_lines = 2
    /\ env_parse_ok = TRUE
    /\ env_console_width = 80
    /\ env_csv = DefaultCsv
    /\ environ = Unset
    /\ params = Options
    /\ pc = "pager"
    /\ expand = FALSE
    /\ print_padding = <<>>
    /\ resource_format = SYNTAX
    /\ renderable = Base("Syntax")
    /\ line_range = None
    /\ lr_called = TRUE
    /\ table = NoTable
    /\ exit_code = None
    /\ stderr = <<>>
    /\ printed = <<>>
    /\ content = [lines_width |-> 79, width |-> 80, renderable |-> Base("Syntax")]
    /\ viewport_height = 1
    /\ total_height = 0
    /\ target_y = 0
    /\ y = 0
    /\ _g_key_pressed_before = FALSE
    /\ event = ""
    /\ history = <<>>

PagerNext ==
    \/ on_mount
    \/ KeyPress
    \/ HandleKey
    \/ AnimateStep
    \/ Quit

\* the pager session, from PagerApp.run to the quit key
PagerSpec == PagerInit /\ [][PagerNext]_vars

\* the width, pager, alignment, style and panel options of invocations whose
\* pager session is followed to the quit key
ManySessions ==
    \E w \in Widths, pg \in BOOLEAN, al \in {"default", "center"},
       st \in StyleSpecs, b \in {"none", "square"} :
        Enter([Default EXCEPT !.width = w, !.pager = pg, !.align = al,
                              !.style = st, !.panel = b])

\* main() is entered with the parameters of one invocation; the pager is
\* asked for only by the invocations of ManySessions
WholeInit ==
    /\ \/ ManyFlags
       \/ ManyResources
       \/ ManyRanges
       \/ ManyPaddings
       \/ ManyTables
       \/ ManySessions
    /\ expand = FALSE
    /\ print_padding = <<>>
    /\ resource_format = AUTO
    /\ renderable = Base("")
    /\ line_range = None
    /\ lr_called = FALSE
    /\ table = NoTable
    /\ printed = <<>>
    /\ SessionIdle

WholeNext ==
    \/ Next
    \/ PagerNext

\* main() and, when the pager is asked for, the pager session it runs
WholeSpec == WholeInit /\ [][WholeNext]_vars

----------------------------------------------------------------------------
(* Properties of format resolution.                                        *)

ModeOf(n) ==
    CASE n = "print" -> PRINT
      [] n = "syntax" -> SYNTAX
      [] n = "json" -> JSON
      [] n = "markdown" -> MARKDOWN
      [] n = "rule" -> RULE
      [] n = "inspect" -> INSPECT
      [] n = "csv" -> CSV
      [] n = "rst" -> RST

\* the mode of the first flag of `order` that is set
FirstSet(order, f) ==
    ModeOf(order[CHOOSE i \in 1..Len(order) :
                    /\ f[order[i]]
                    /\ \A k \in 1..(i - 1) : ~f[order[k]]])

StatedOrder == <<"print", "rule", "json", "markdown", "rst", "csv", "syntax",
                 "inspect">>
ChainOrder == <<"print", "syntax", "json", "markdown", "rule", "inspect",
                "csv", "rst">>

\* the format stage has run
Resolved == resource_format # AUTO

SeveralFlags == Cardinality(FlagsSet(flags)) > 1

\* C1 as stated: with more than one mode flag set, the mode is the first set
\* flag in the order print > rule > json > markdown > rst > csv > syntax >
\* inspect.
C1_StatedPriority ==
    (Resolved /\ SeveralFlags) => resource_format = FirstSet(StatedOrder, flags)

\* C1, amended: with more than one mode flag set, the mode is the first set
\* flag in the order print > syntax > json > markdown > rule > inspect > csv >
\* rst, and the format stage never reports an error: it always goes on to
\* build the content.
C1_ChainPriority ==
    /\ [](Resolved /\ SeveralFlags => resource_format = FirstSet(ChainOrder, flags))
    /\ [][pc = "format" =>
            pc' = "content" /\ stderr' = stderr /\ exit_code' = None]_vars

\* --rule and --json together: Json, where the stated order gives Rule
C1_Witness ==
    /\ FlagsSet(flags) = {"rule", "json"}
    /\ pc = "content"
    /\ resource_format = JSON

\* the extension as C2 reads it: of the URL's path component for an http or
\* https URL, of the identifier itself otherwise, compared in lower case
C2_Extension(res) ==
    IF IsUrl(res)
    THEN IF urlparse(res).ok THEN lower(splitext(urlparse(res).path)) ELSE <<>>
    ELSE lower(splitext(res))

C2_Table(ext) ==
    CASE ext = <<".", "m", "d">> -> MARKDOWN
      [] ext = <<".", "j", "s", "o", "n">> -> JSON
      [] ext = <<".", "c", "s", "v">> -> CSV
      [] ext = <<".", "t", "s", "v">> -> CSV
      [] ext = <<".", "r", "s", "t">> -> RST
      [] OTHER -> SYNTAX

\* C2: with no mode flag set the mode follows the extension of the resource
\* identifier (.md Markdown, .json Json, .csv/.tsv Csv, .rst RestructuredText,
\* anything else Syntax; for a URL the extension of its path component); with
\* exactly one mode flag set the mode is that flag's, whatever the extension.
C2_ByExtension ==
    Resolved =>
        /\ FlagsSet(flags) = {} =>
                resource_format = C2_Table(C2_Extension(resource))
        /\ \A n \in FlagNames :
                FlagsSet(flags) = {n} => resource_format = ModeOf(n)

\* http://h/a.md?q.json with no flag: Markdown, from the path, not the query
C2_Witness ==
    /\ flags = NoFlags
    /\ resource = HTTP \o <<"h", "/", "a", ".", "m", "d", "?", "q", ".", "j", "s", "o", "n">>
    /\ pc = "content"
    /\ resource_format = MARKDOWN

----------------------------------------------------------------------------
(* Properties of the pager's key handling (PagerSpec).                     *)

\* this step is on_key handling the key k
Handles(k) == pc = "viewing" /\ event = k /\ event' = ""

UpKeys == {"k", "u", "ctrl+u", "b", "ctrl+b"}

\* the key history g, j, g, g from the start of a session, step by step
C3_Scenario ==
    /\ history = <<"g">> => _g_key_pressed_before /\ target_y = 0
    /\ history = <<"g", "j">> =>
            ~_g_key_pressed_before /\ (max_scroll_y > 0 => target_y > 0)
    /\ history = <<"g", "j", "g">> =>
            _g_key_pressed_before /\ (max_scroll_y > 0 => target_y > 0)
    /\ history = <<"g", "j", "g", "g">> => target_y = 0

\* C3: with the pending flag clear a g press only sets the flag and leaves the
\* scroll target alone; a g press with the flag set moves the target to
\* offset 0; any other key clears the flag and brings the target to the top
\* only if it is a key that scrolls up; so in g, j, g, g only the last pair
\* scrolls to the top.
C3_DoubleG ==
    /\ []C3_Scenario
    /\ [][/\ Handles("g") /\ ~_g_key_pressed_before =>
                _g_key_pressed_before' /\ target_y' = target_y
          /\ Handles("g") /\ _g_key_pressed_before => target_y' = 0
          /\ \A k \in Keys \ {"g"} :
                Handles(k) =>
                    /\ ~_g_key_pressed_before'
                    /\ target_y' = 0 => (target_y = 0 \/ k \in UpKeys)]_vars

\* g, j, g, g has been typed, the view had moved down a line, and the target
\* is the top again while the offset is still on its way there
C3_Witness ==
    /\ history = <<"g", "j", "g", "g">>
    /\ target_y = 0
    /\ y = 1

\* C4: whatever keys are pressed, the scroll target and the scroll offset
\* stay within [0, total height - viewport height] (0 when the content is
\* shorter than the viewport); with a viewport of 20 lines over 25 lines of
\* content, fifteen j presses from offset 0 end at offset 5.
C4_ScrollClamp ==
    pc \in {"viewing", "done"} =>
        /\ 0 <= target_y /\ target_y <= Max(0, total_height - viewport_height)
        /\ 0 <= y /\ y <= Max(0, total_height - viewport_height)
        /\ (/\ history = [i \in 1..15 |-> "j"]
            /\ viewport_height = 20
            /\ total_height = 25) => target_y = 5

C4_Witness ==
    /\ history = [i \in 1..15 |-> "j"]
    /\ viewport_height = 20
    /\ total_height = 25
    /\ target_y = 5
    /\ y = 5

----------------------------------------------------------------------------
(* Properties of the line range (Spec).                                    *)

BothGiven == Truthy(head) /\ Truthy(tail)

ConflictMessage == "cannot specify both head and tail"

Reported(message) == \E i \in 1..Len(stderr) : stderr[i] = message

\* C5: whenever _line_range is called with head and tail both given, the
\* conflict is reported on the error stream, the process exits with a
\* non-zero code, and no range and no content come out of it.
C5_Conflict ==
    (lr_called /\ BothGiven) =>
        /\ pc = "exited"
        /\ exit_code # None /\ exit_code[1] # 0
        /\ stderr = <<ConflictMessage>>
        /\ line_range = None
        /\ renderable = Base("")
        /\ printed = <<>>

C5_Witness ==
    /\ lr_called
    /\ head = Some(10)
    /\ tail = Some(2)
    /\ pc = "exited"

\* C6: called with at most one of head and tail, _line_range returns (1, head)
\* for a head, (totalLines - tail + 2, totalLines + 1) for a tail, and None
\* for neither.
C6_Range ==
    (lr_called /\ ~BothGiven) =>
        /\ ~Reported(ConflictMessage)
        /\ Truthy(head) => line_range = <<1, head[1]>>
        /\ Truthy(tail) =>
                line_range = <<env_num_lines - tail[1] + 2, env_num_lines + 1>>
        /\ (head = None /\ tail = None) => line_range = None

\* 100 lines, tail 10: (92, 101)
C6_Witness ==
    /\ lr_called
    /\ env_num_lines = 100
    /\ head = None
    /\ tail = Some(10)
    /\ line_range = <<92, 101>>

\* the lines of a resource of n lines that fall inside the inclusive,
\* 1-indexed range
Window(range, n) == {i \in 1..n : range[1] <= i /\ i <= range[2]}

\* C7 as stated: with exactly one of head and tail, start <= end and the
\* window holds min(requested, available) lines.
C7_WindowBound ==
    (lr_called /\ ~BothGiven /\ (Truthy(head) \/ Truthy(tail))) =>
        /\ line_range[1] <= line_range[2]
        /\ Cardinality(Window(line_range, env_num_lines))
             = Min(IF Truthy(head) THEN head[1] ELSE tail[1], env_num_lines)

----------------------------------------------------------------------------
(* Properties of the decorators (Spec).                                    *)

\* the decorator stages are over
Decorated == pc \in {"output", "pager", "done"} /\ renderable.base # ""

Rank(kind) ==
    CASE kind = "Padding" -> 1
      [] kind = "Panel" -> 2
      [] kind = "Styled" -> 3
      [] kind = "ForceWidth" -> 4
      [] OTHER -> 5

\* the four layout decorators around the content, innermost first (the pager
\* path may put an Align around them afterwards)
Decorators(r) == SelectSeq(r.wraps, LAMBDA l : l.kind # "Align")

KindsOf(r) == {Decorators(r)[i].kind : i \in 1..Len(Decorators(r))}

StagesEnabled ==
    (IF PaddingGiven(padding) THEN {"Padding"} ELSE {})
        \cup (IF panel # "none" THEN {"Panel"} ELSE {})
        \cup (IF style # "" THEN {"Styled"} ELSE {})
        \cup (IF width > 0 /\ ~pager THEN {"ForceWidth"} ELSE {})

\* C8: once the decorator stages are over, the content is wrapped by exactly
\* the enabled decorators, nested padding, then panel, then style, then
\* width-clamp from the inside out.
C8_Ordering ==
    Decorated =>
        /\ KindsOf(renderable) = StagesEnabled
        /\ \A i \in 1..(Len(Decorators(renderable)) - 1) :
                Rank(Decorators(renderable)[i].kind)
                    < Rank(Decorators(renderable)[i + 1].kind)

\* all four stages enabled
C8_Witness ==
    /\ pc = "done"
    /\ Len(renderable.wraps) = 4
    /\ renderable.wraps[1].kind = "Padding"
    /\ renderable.wraps[2].kind = "Panel"
    /\ renderable.wraps[3].kind = "Styled"
    /\ renderable.wraps[4].kind = "ForceWidth"

LayoutDefaults ==
    /\ ~PaddingGiven(padding)
    /\ panel = "none"
    /\ style = ""
    /\ width <= 0
    /\ align = "default"

\* C9: a decorator stage whose option is absent or default leaves the
\* renderable as it is, so with no padding, panel "none", no style and no
\* width the decorated renderable is the base renderable: that is what is
\* printed.
C9_NoOp ==
    /\ [](Decorated /\ LayoutDefaults =>
            /\ renderable.wraps = <<>>
            /\ pc = "done" =>
                    printed = <<[what |-> "renderable", r |-> Base(renderable.base)]>>)
    /\ [][/\ pc = "decorate_padding" /\ ~PaddingGiven(padding) =>
                renderable' = renderable
          /\ pc = "decorate_panel" /\ panel = "none" => renderable' = renderable
          /\ pc = "decorate_style" /\ style = "" => renderable' = renderable
          /\ pc = "decorate_width" /\ width <= 0 => renderable' = renderable]_vars

\* rich ... -d "" with everything else at its default has been printed bare
C9_Witness ==
    /\ padding = Some(<<"">>)
    /\ LayoutDefaults
    /\ pc = "done"
    /\ printed = <<[what |-> "renderable", r |-> Base("Syntax")]>>

PaddingMessage == "padding should be 1, 2 or 4 integers separated by commas"

\* the number of integers a spec holds, or -1 when it holds a token that is
\* not an integer
PaddingCount(p) ==
    IF p = None \/ p = Some(<<"">>) THEN 0
    ELSE IF \A i \in 1..Len(p[1]) : IntOf(p[1][i]) # None THEN Len(p[1])
    ELSE -1

\* C10: once main has passed the padding stage (it is not reached under
\* --version), a spec of 0, 1, 2 or 4 integers has been accepted, and any
\* other spec has been reported as invalid padding with a non-zero exit
\* before a format was resolved or any content was built or printed.
C10_Padding ==
    (~version /\ pc \notin {"start", "padding"}) =>
        IF PaddingCount(padding) \in {0, 1, 2, 4}
        THEN /\ ~Reported(PaddingMessage)
             /\ Len(print_padding) = PaddingCount(padding)
        ELSE /\ pc = "exited"
             /\ exit_code # None /\ exit_code[1] # 0
             /\ stderr = <<PaddingMessage>>
             /\ resource_format = AUTO
             /\ renderable = Base("")
             /\ printed = <<>>

\* three integers: rejected
C10_Witness ==
    /\ padding = Some(<<"1", " 2", "1">>)
    /\ pc = "exited"
    /\ stderr = <<PaddingMessage>>

----------------------------------------------------------------------------
(* Properties of the style specs (Spec).                                   *)

\* the invocation carries a style spec that Style.parse rejects
Malformed == ~StyleParses(style) \/ ~StyleParses(panel_style)

\* C11 as stated: an invocation with a malformed text-style spec or a
\* malformed border-style spec never gets as far as its output: it is
\* reported and exits with a non-zero code, whatever the other options are
\* (panel "none" included).
C11_StyleErrors ==
    Malformed =>
        /\ pc \notin {"output", "pager", "done"}
        /\ pc = "exited" => exit_code # None /\ exit_code[1] # 0 /\ stderr # <<>>

\* the position of the Panel among the decorators of r
PanelAt(r) == CHOOSE i \in 1..Len(r.wraps) : r.wraps[i].kind = "Panel"

\* the styles the border lines of r's Panel are drawn with: the Panel's
\* border style, and the style of every Styled around the Panel (a Styled
\* lays its style on every segment the renderable inside it yields)
BorderStyles(r) ==
    {r.wraps[PanelAt(r)].style}
        \cup {r.wraps[i].style :
                i \in {k \in (PanelAt(r) + 1)..Len(r.wraps) :
                            r.wraps[k].kind = "Styled"}}

----------------------------------------------------------------------------
(* Properties of the pager's scroll keys and of its exit (PagerSpec).      *)

\* the last line the view can scroll to
Bottom == Max(0, total_height - viewport_height)

\* an offset, brought into [0, Bottom]
InRange(v) == IF v < 0 THEN 0 ELSE IF v > Bottom THEN Bottom ELSE v

InRange2(v) == IF v < 0 THEN 0 ELSE IF v > 2 * Bottom THEN 2 * Bottom ELSE v

\* C14 as stated: u and ctrl+u move the target up by half a viewport height
\* and d and ctrl+d down by half a viewport height (offsets are doubled here,
\* to state the half of an odd height); b and ctrl+b move it up by a full
\* viewport height, f, ctrl+f and space down by one; G sets it to the maximum
\* scroll offset.
C14_ExactHalf ==
    [][/\ \A k \in {"u", "ctrl+u"} :
            Handles(k) => 2 * target_y' = InRange2(2 * target_y - viewport_height)
       /\ \A k \in {"d", "ctrl+d"} :
            Handles(k) => 2 * target_y' = InRange2(2 * target_y + viewport_height)
       /\ \A k \in {"b", "ctrl+b"} :
            Handles(k) => target_y' = InRange(target_y - viewport_height)
       /\ \A k \in {"f", "ctrl+f", " "} :
            Handles(k) => target_y' = InRange(target_y + viewport_height)
       /\ Handles("G") => target_y' = Bottom]_vars

\* C14, amended: the half-page keys move the target by half the viewport
\* height rounded down to a whole number of lines (height // 2); the rest as
\* stated, every ctrl variant doing what its plain key does.
C14_PageKeys ==
    [][/\ \A k \in {"u", "ctrl+u"} :
            Handles(k) => target_y' = InRange(target_y - viewport_height \div 2)
       /\ \A k \in {"d", "ctrl+d"} :
            Handles(k) => target_y' = InRange(target_y + viewport_height \div 2)
       /\ \A k \in {"b", "ctrl+b"} :
            Handles(k) => target_y' = InRange(target_y - viewport_height)
       /\ \A k \in {"f", "ctrl+f", " "} :
            Handles(k) => target_y' = InRange(target_y + viewport_height)
       /\ Handles("G") => target_y' = Bottom]_vars

\* G, b, d on four lines behind a viewport of two: the end (2), the top (0),
\* then half a page down (1)
C14_Witness ==
    /\ history = <<"G", "b", "d">>
    /\ viewport_height = 2
    /\ total_height = 4
    /\ target_y = 1

\* C15: the session is in its one steady state from the mount until it ends;
\* handling a key, whatever the key and whatever came before it, never ends
\* the session; the only step that ends it is the quit binding's, with exit
\* code 0; and q can end it in every state of the session, a pending g and
\* a scroll in flight included.
C15_QuitOnly ==
    /\ [](pc \in {"pager", "viewing", "done"})
    /\ [](pc = "viewing" /\ event = "" => ENABLED Quit)
    /\ [][/\ (\E k \in Keys : Handles(k)) => pc' = "viewing" /\ exit_code' = None
          /\ (pc = "viewing" /\ pc' # "viewing") =>
                /\ pc' = "done"
                /\ exit_code' = Some(0)
                /\ event = "" /\ event' = ""
                /\ session' = session]_vars

\* q after j, g: the session has ended with the g still pending and the view
\* a line down
C15_Witness ==
    /\ pc = "done"
    /\ exit_code = Some(0)
    /\ history = <<"j", "g">>
    /\ _g_key_pressed_before
    /\ target_y = 1

----------------------------------------------------------------------------
(* Properties of error reporting (Spec).                                   *)

\* main is at a place where the code calls on_error on its next step
ErrorAhead ==
    \/ pc = "padding" /\ ~ParsePaddingSpec(padding).ok
    \/ /\ pc = "content"
       /\ \/ resource_format \in {PRINT, RULE, INSPECT} /\ ~env_parse_ok
          \/ /\ resource_format \in {JSON, MARKDOWN, RST, CSV}
             /\ read_resource(resource).res = "exit"
          \/ /\ resource_format = JSON
             /\ read_resource(resource).res = "ok"
             /\ ~env_parse_ok
          \/ /\ resource_format = CSV
             /\ read_resource(resource).res = "ok"
             /\ ~env_parse_ok
             /\ ~endswith(lower(resource), <<".", "c", "s", "v">>)
             /\ ~endswith(lower(resource), <<".", "t", "s", "v">>)
          \/ /\ resource_format = SYNTAX
             /\ resource # <<>>
             /\ \/ ~env_readable
                \/ BothGiven
    \/ pc = "decorate_panel" /\ panel # "none" /\ ~StyleParses(panel_style)
    \/ pc = "decorate_style" /\ style # "" /\ ~StyleParses(style)

\* on_error has been called
Errored == \E i \in 1..Len(stderr) : stderr[i] # "Traceback"

----------------------------------------------------------------------------
(* Properties of the table built from a CSV resource (Spec).               *)

\* render_csv has returned its table
TableBuilt == resource_format = CSV /\ renderable.base = "Table"

\* the numeric pattern: an optional sign, then digits with at most one dot
\* among them, every part optional
NumericShape(cell) ==
    LET body == IF cell # <<>> /\ cell[1] = "-" THEN Tail(cell) ELSE cell
    IN  /\ \A i \in 1..Len(body) : body[i] \in Digits \cup {"."}
        /\ Cardinality({i \in 1..Len(body) : body[i] = "."}) <= 1

\* the cells the retained rows have in column c
CellsOf(c) ==
    {table.rows[i][c] : i \in {k \in 1..Len(table.rows) : c <= Len(table.rows[k])}}

MarkedNumeric(c) ==
    table.columns[c].justify = "right" /\ table.columns[c].style = "bold green"

LeftPlain(c) ==
    table.columns[c].justify = "left" /\ table.columns[c].style = ""

\* C17 as stated: a column is right-justified with the numeric style if and
\* only if every non-empty cell it has in the retained rows matches the
\* numeric pattern (so a column with only empty cells is numeric); otherwise
\* it is left-justified and unstyled.
C17_NonEmptyCells ==
    TableBuilt =>
        \A c \in 1..Len(table.columns) :
            IF \A cell \in CellsOf(c) \ {<<>>} : NumericShape(cell)
            THEN MarkedNumeric(c)
            ELSE LeftPlain(c)

\* C17, amended: a column is right-justified with the numeric style if and
\* only if every retained row has a cell in that column and every such cell
\* that is not empty matches the numeric pattern; otherwise it is
\* left-justified and unstyled.
C17_Inference ==
    TableBuilt =>
        \A c \in 1..Len(table.columns) :
            IF /\ \A i \in 1..Len(table.rows) : c <= Len(table.rows[i])
               /\ \A cell \in CellsOf(c) \ {<<>>} : NumericShape(cell)
            THEN MarkedNumeric(c)
            ELSE LeftPlain(c)

\* a,b / 1,2 / 3,x: column a is numeric and column b is not
C17_Witness ==
    /\ env_csv = DefaultCsv
    /\ head = None /\ tail = None
    /\ pc = "done"
    /\ table.rows = <<<<One, Two>>, <<Three, Ex>>>>
    /\ MarkedNumeric(1)
    /\ LeftPlain(2)

\* the rows of the resource after the header, the empty ones removed
KeptRows ==
    LET has_header == IF env_parse_ok THEN env_csv.has_header ELSE TRUE
        body == IF has_header THEN Tail(env_csv.rows) ELSE env_csv.rows
    IN  SelectSeq(body, LAMBDA row : row # <<>>)

\* the rows inside an inclusive, 1-indexed range
RowsIn(rows, range) ==
    SubSeq(rows, Max(1, range[1]), Min(Len(rows), range[2]))

\* C18 as stated: the head/tail clip of the rows is the line-range
\* resolver's: with head and tail both given no table comes out (it is a
\* conflict error), head keeps the first rows, tail keeps the rows of the
\* window _line_range gives for that many rows, and what is clipped is
\* the parsed rows after empty-row removal.
C18_SameAsLineRange ==
    TableBuilt =>
        /\ ~(head # None /\ tail # None)
        /\ (head # None /\ tail = None) =>
                table.rows = SubSeq(KeptRows, 1, Min(head[1], Len(KeptRows)))
        /\ (head = None /\ tail # None) =>
                table.rows
                    = RowsIn(KeptRows, _line_range(head, tail, Len(KeptRows)).range)
        /\ (head = None /\ tail = None) => table.rows = KeptRows

----------------------------------------------------------------------------
(* Properties of the command's options.                                    *)

\* the registered options that declare the flag string
DeclaredBy(opt) == {i \in 1..Len(params) : opt \in params[i].opts}

\* C19 as stated: no flag string, short or long, is declared by more than
\* one of the options registered on the main command.
C19_UniqueFlags ==
    \A i \in 1..Len(params) :
        \A opt \in params[i].opts : DeclaredBy(opt) = {i}

\* main has ended
Ended == pc \in {"done", "exited"}

\* C20 as stated: an option whose flag is not on the command line takes its
\* value from its environment variable: with no --width flag a RICH_WIDTH
\* that is no integer makes the invocation exit with a non-zero code, and
\* one that is an integer is the width main runs with; RICH_PAGER turns the
\* pager on; a variable is not looked at when the flag is given.
C20_EnvDefaults ==
    Ended =>
        /\ (argv_width = None /\ environ["RICH_WIDTH"] # "") =>
                IF IntOfEnv(environ["RICH_WIDTH"]) = None
                THEN exit_code # None /\ exit_code[1] # 0
                ELSE width = IntOfEnv(environ["RICH_WIDTH"])[1]
        /\ argv_width # None => width = argv_width[1]
        /\ BoolOfEnv(environ["RICH_PAGER"]) => pager

----------------------------------------------------------------------------
(* C21: keys during a transition.                                          *)

JumpKeys == {"u", "ctrl+u", "d", "ctrl+d", "b", "ctrl+b", "f", "ctrl+f"}

\* the move a jump key asks for
Move(key) ==
    IF key \in {"u", "ctrl+u"} THEN 0 - (viewport_height \div 2)
    ELSE IF key \in {"d", "ctrl+d"} THEN viewport_height \div 2
    ELSE IF key \in {"b", "ctrl+b"} THEN 0 - viewport_height
    ELSE viewport_height

\* the keys handled so far are known and are all jump keys
JumpsOnly ==
    /\ pc = "viewing"
    /\ history # Untracked
    /\ \A i \in 1..Len(history) : history[i] \in JumpKeys

RECURSIVE SumOfMoves(_)
SumOfMoves(keys) ==
    IF keys = <<>> THEN 0
    ELSE SumOfMoves(SubSeq(keys, 1, Len(keys) - 1)) + Move(keys[Len(keys)])

RECURSIVE MoveByMove(_)
MoveByMove(keys) ==
    IF keys = <<>> THEN 0
    ELSE InRange(MoveByMove(SubSeq(keys, 1, Len(keys) - 1))
                    + Move(keys[Len(keys)]))

\* C21 as stated: after a sequence of jump keys from the top, however the
\* transition has advanced in between, the one target is the sum of the
\* requested moves, clamped into the scroll range.
C21_ClampedSum == JumpsOnly => target_y = InRange(SumOfMoves(history))

\* C21 amended: after a sequence of jump keys from the top, however the
\* transition has advanced in between, the one target is what the moves give
\* when they are applied in order to the previous target and the result is
\* clamped into the scroll range after each of them; the offset the
\* transition has reached plays no part.
C21_Retarget == JumpsOnly => target_y = MoveByMove(history)

\* two page-down keys were handled before the first transition made a step,
\* and the target is two pages down
C21_Witness ==
    /\ JumpsOnly
    /\ history = <<"f", "f">>
    /\ y = 0
    /\ target_y = 2 * viewport_height

----------------------------------------------------------------------------
(* C22: runs of g presses.                                                 *)

\* G, then n presses of g: the run starts with the flag clear (line 78) and
\* the target at the bottom
GRun(n) == [i \in 1..(n + 1) |-> IF i = 1 THEN "G" ELSE "g"]

\* C22: in a run of n consecutive g presses that starts with the pending
\* flag clear, the flag is set after the run exactly when n is odd, and the
\* target has been brought to the top exactly when the run has reached its
\* second press; an odd-numbered press sets the flag and moves nothing, an
\* even-numbered press sets the target to 0 and clears the flag, and no g
\* press does what another key does: it never clears a flag that was clear
\* and never moves the target anywhere but to the top.
C22_Parity ==
    /\ [](\A n \in 0..MaxG :
            history = GRun(n) =>
                /\ _g_key_pressed_before = (n % 2 = 1)
                /\ target_y = (IF n >= 2 THEN 0 ELSE max_scroll_y))
    /\ [][\A n \in 0..(MaxG - 1) :
            (history = GRun(n) /\ Handles("g")) =>
                IF n % 2 = 0
                THEN /\ _g_key_pressed_before'
                     /\ target_y' = target_y
                     /\ y' = y
                ELSE /\ ~_g_key_pressed_before'
                     /\ target_y' = 0
                     /\ y' = y]_vars

\* three g presses after a G over content longer than the viewport: the
\* second brought the target to the top and the third has set the flag again
C22_Witness ==
    /\ history = GRun(3)
    /\ max_scroll_y > 0
    /\ _g_key_pressed_before
    /\ target_y = 0
    /\ y > 0

----------------------------------------------------------------------------
(* C23: the content and the resolved mode.                                 *)

\* the base renderable that belongs to a mode
KindOfMode(mode) ==
    CASE mode = PRINT -> "Text"
      [] mode = RULE -> "Rule"
      [] mode = JSON -> "JSON"
      [] mode = MARKDOWN -> "Markdown"
      [] mode = RST -> "RestructuredText"
      [] mode = INSPECT -> "Inspect"
      [] mode = CSV -> "Table"
      [] mode = SYNTAX -> "Syntax"

\* main has built the content
Built == renderable.base # ""

\* C23 as stated: for every combination of mode flags, the base renderable
\* main builds is the one of the resolved mode; with print and rule both
\* set the mode is Print and the content is the text, not a rule.
C23_ContentOfMode == Built => renderable.base = KindOfMode(resource_format)

----------------------------------------------------------------------------
(* C24: the width on the two output paths (WholeSpec).                     *)

\* the renderable main printed to the terminal, if it printed one
DirectPrints ==
    {i \in 1..Len(printed) : printed[i].what = "renderable"}

\* r is wrapped in the width clamp of w columns, as its outermost wrapper
ClampedLast(r, w) ==
    /\ r.wraps # <<>>
    /\ r.wraps[Len(r.wraps)].kind = "ForceWidth"
    /\ r.wraps[Len(r.wraps)].width = w

NoClamp(r) == \A i \in 1..Len(r.wraps) : r.wraps[i].kind # "ForceWidth"

\* main has rendered the lines for the pager
Handed == content # NoContent

\* the width the --width flag gives, the terminal's when it is not there
FlagOrTerminal == IF argv_width = None THEN env_console_width ELSE argv_width[1]

\* C24: on the direct path the renderable printed has the width clamp as
\* its outermost wrapper when the width is positive and has no width clamp
\* otherwise; when the pager is requested the renderable has no width clamp,
\* the lines are rendered at the width minus one, the width being the
\* terminal's when no width is given, and nothing is printed directly; the
\* line buffer is made once, by main's output step, with the pager requested,
\* and no step of the pager session changes it.
C24_WidthPaths ==
    /\ [](\A i \in DirectPrints :
            /\ ~pager
            /\ ~Handed
            /\ IF width > 0
               THEN ClampedLast(printed[i].r, width)
               ELSE NoClamp(printed[i].r))
    /\ [](Handed =>
            /\ pager
            /\ NoClamp(content.renderable)
            /\ content.width = FlagOrTerminal
            /\ content.lines_width = FlagOrTerminal - 1
            /\ DirectPrints = {})
    /\ [](pc \in {"pager", "viewing"} => Handed)
    /\ [][content' # content =>
            pc = "output" /\ pc' = "pager" /\ pager /\ ~Handed]_vars
    /\ [][pc = "viewing" => content' = content]_vars

\* rich a.py --pager --width 40: the lines were rendered at 39 columns with
\* no width clamp, nothing was printed, and the keys G, b, d have been handled
C24_Witness ==
    /\ pc = "viewing"
    /\ argv_width = Some(40)
    /\ content.lines_width = 39
    /\ NoClamp(content.renderable)
    /\ printed = <<>>
    /\ history = <<"G", "b", "d">>

\* rich a.py --width 40: the renderable printed has the width clamp outermost
C24_WitnessDirect ==
    /\ pc = "done"
    /\ ~pager
    /\ DirectPrints # {}
    /\ \A i \in DirectPrints : ClampedLast(printed[i].r, 40)

====
